---- MODULE Spec2Model ----
(***************************************************************************)
(* Model of the task-graph orchestrator of src/src/core/workflow.py:       *)
(* WorkflowNode (one unit of work with its lifecycle fields) and           *)
(* WorkflowDAG (node mapping, dependency graph, construction, readiness,   *)
(* single-node execution, whole-workflow execution, status aggregation).   *)
(*                                                                         *)
(* The program is single threaded.  add_node and the status queries are    *)
(* atomic; an execution is split at the points where the wrapped callable  *)
(* is running (the node is 'running') and, inside execute_workflow, at     *)
(* the head of the for loop, so that the intermediate states the code      *)
(* goes through are states of the model.                                   *)
(***************************************************************************)
EXTENDS Integers, Sequences, FiniteSets, TLC

\* ---------------------------------------------------------------- bounds
\* Node names a caller may use.
Names == {"A", "E"}
\* Callables a caller may register.
Funcs == {"f", "g"}
\* Longest dependency list a caller passes to add_node.
MaxDeps == 2
\* Last value of the clock read by datetime.now().
MaxClock == 7
\* Keys of the working context and values of the payload dictionaries.
Keys == {"j", "k"}
Vals == {1, 2}
\* Messages of the exceptions a failing callable raises.
Errors == {"boom"}

\* ------------------------------------------------------------ data model
\* Python's None for the timestamp fields; clock values start above it.
NoTime == 0
\* Python's None for the error field.
NoError == "None"

\* A value a callable returns, or None.
None == [tag |-> "None", items |-> <<>>]
Dict(d) == [tag |-> "dict", items |-> d]
Other == [tag |-> "other", items |-> <<>>]
EmptyDict == <<>>

\* The exception a callable raises with the message msg, and the value of a
\* variable that holds no exception.
Exception(msg) == [type |-> "Exception", args |-> <<msg>>]
NoException == [type |-> "None", args |-> <<>>]
\* str(e): the single argument of the exception, '' when it has none.
str(e) == IF e.args = <<>> THEN "" ELSE e.args[1]

\* The values a callable can return: dictionaries over Keys, or a
\* value that is not a dictionary.
Payloads == {Dict([k \in {"k"} |-> v]) : v \in Vals} \cup {Other}

\* The initial_data arguments of execute_workflow (None and {} both give {}).
InitialData == {EmptyDict, [k \in Keys |-> 0]}

RECURSIVE SeqsUpTo(_, _)
SeqsUpTo(S, n) ==
    IF n = 0 THEN {<<>>}
    ELSE LET shorter == SeqsUpTo(S, n - 1)
         IN shorter \cup {Append(s, x) : s \in {t \in shorter : Len(t) = n - 1}, x \in S}

\* The dependency lists a caller passes (None and [] both give []).
DepLists == SeqsUpTo(Names, MaxDeps)

VARIABLES
    nodes,            \* self.nodes: name -> WorkflowNode
    keys,             \* insertion order of the keys of self.nodes
    graph,            \* self.graph: [node: insertion-ordered names, edge: set of <<dep, name>>]
    now,              \* the value the next datetime.now() returns
    pc,               \* position of the running call: "idle", "execute_node", "for", "execute_workflow"
    cur,              \* the node whose callable is running, or "" when none
    execution_order,  \* execute_workflow's local: the order being walked
    idx,              \* execute_workflow's local: position in execution_order
    results,          \* execute_workflow's local, and the mapping it returned
    current_data,     \* execute_workflow's local: the working context
    initial_context,  \* the value of initial_data (or {}) when execute_workflow was called
    raised,           \* outcome of the last finished call: "none" or the error raised
    returned,         \* what the last status query returned
    call,             \* the method whose call finished last, "" before the first
    exception         \* the exception of a callable that the last finished call let through

vars == <<nodes, keys, graph, now, pc, cur, execution_order, idx, results, current_data,
          initial_context, raised, returned, call, exception>>

\* The value of returned when the last call was not a status query.
NoNodeStatus ==
    [name |-> "", status |-> "", error |-> NoError, start_time |-> NoTime,
     end_time |-> NoTime, duration |-> <<>>]
NoWorkflowStatus ==
    [total_nodes |-> 0, completed |-> 0, failed |-> 0, pending |-> 0, running |-> 0,
     start_time |-> NoTime, end_time |-> NoTime, duration |-> <<>>, status |-> ""]
NoReturn ==
    [ready_nodes |-> <<>>, node_status |-> NoNodeStatus, workflow_status |-> NoWorkflowStatus]

\* WorkflowNode.__init__
WorkflowNode(name, task_func, dependencies) ==
    [name |-> name, task_func |-> task_func, dependencies |-> dependencies,
     result |-> None, status |-> "pending", error |-> NoError,
     start_time |-> NoTime, end_time |-> NoTime]

\* ------------------------------------------------------ networkx DiGraph
\* DiGraph.add_node: a new node goes last.
graph_add_node(G, name) ==
    IF \E i \in 1..Len(G.node) : G.node[i] = name THEN G
    ELSE [G EXCEPT !.node = Append(G.node, name)]

\* DiGraph.add_edge(dep, name); both ends are nodes of G where it is called.
graph_add_edge(G, dep, name) == [G EXCEPT !.edge = G.edge \cup {<<dep, name>>}]

\* A remove_node that forgets the edges at the node.
graph_remove_node_keeps_edges(G, name) ==
    [node |-> SelectSeq(G.node, LAMBDA n : n # name), edge |-> G.edge]

\* DiGraph.remove_node: the node and every edge at it.
graph_remove_node(G, name) ==
    [node |-> SelectSeq(G.node, LAMBDA n : n # name),
     edge |-> {e \in G.edge : e[1] # name /\ e[2] # name}]

\* G.in_degree(n)
in_degree(G, n) == Cardinality({e \in G.edge : e[2] = n})

\* G.neighbors(n): the successors of n.  The adjacency dict of n is filled by
\* add_node calls one name at a time, so its order is the node order.
neighbors(G, n) == SelectSeq(G.node, LAMBDA c : <<n, c>> \in G.edge)

\* The inner loops of topological_generations: the children of the nodes of
\* one generation lose one in-degree each; those reaching 0 form the next.
RECURSIVE visit_children(_, _, _)
visit_children(children, indegree_map, zero_indegree) ==
    IF children = <<>> THEN [indegree_map |-> indegree_map, zero_indegree |-> zero_indegree]
    ELSE LET child == Head(children)
             d == indegree_map[child] - 1
         IN visit_children(Tail(children),
                           [indegree_map EXCEPT ![child] = d],
                           IF d = 0 THEN Append(zero_indegree, child) ELSE zero_indegree)

RECURSIVE visit_generation(_, _, _, _)
visit_generation(G, this_generation, indegree_map, zero_indegree) ==
    IF this_generation = <<>> THEN [indegree_map |-> indegree_map, zero_indegree |-> zero_indegree]
    ELSE LET r == visit_children(neighbors(G, Head(this_generation)), indegree_map, zero_indegree)
         IN visit_generation(G, Tail(this_generation), r.indegree_map, r.zero_indegree)

RECURSIVE topological_generations(_, _, _, _)
topological_generations(G, zero_indegree, indegree_map, order) ==
    IF zero_indegree = <<>>
    THEN [order |-> order, unfeasible |-> \E n \in DOMAIN indegree_map : indegree_map[n] > 0]
    ELSE LET r == visit_generation(G, zero_indegree, indegree_map, <<>>)
         IN topological_generations(G, r.zero_indegree, r.indegree_map, order \o zero_indegree)

\* nx.topological_sort(G): the generations one after the other; unfeasible
\* when nodes with a positive in-degree are left (NetworkXUnfeasible).
topological_sort(G) ==
    LET ns == {G.node[i] : i \in 1..Len(G.node)}
    IN topological_generations(G,
                               SelectSeq(G.node, LAMBDA n : in_degree(G, n) = 0),
                               [n \in ns |-> in_degree(G, n)],
                               <<>>)

\* An acyclicity test that accepts every graph.
is_directed_acyclic_graph_accepts_all(G) == TRUE

\* nx.is_directed_acyclic_graph(G): a topological sort exists.
is_directed_acyclic_graph(G) == ~topological_sort(G).unfeasible

\* ---------------------------------------------------------- construction
\* The dependency loop of add_node: edges are added one by one until a
\* dependency is met that is not a key of self.nodes.
RECURSIVE add_dependencies(_, _, _, _)
add_dependencies(G, registered, name, dependencies) ==
    IF dependencies = <<>> THEN [graph |-> G, missing |-> FALSE]
    ELSE IF Head(dependencies) \notin registered THEN [graph |-> G, missing |-> TRUE]
    ELSE add_dependencies(graph_add_edge(G, Head(dependencies), name),
                          registered, name, Tail(dependencies))

\* del self.nodes[name]
del_node(ns, name) == [n \in DOMAIN ns \ {name} |-> ns[n]]

\* add_node after the duplicate check: the node is inserted, the edges are
\* added, and the cycle check rolls the insertion back.
add_node_insert(name, task_func, dependencies) ==
    LET nodes1 == (name :> WorkflowNode(name, task_func, dependencies)) @@ nodes
        keys1 == IF name \in DOMAIN nodes THEN keys ELSE Append(keys, name)
        r == add_dependencies(graph_add_node(graph, name), DOMAIN nodes1, name, dependencies)
    IN IF r.missing
       THEN [nodes |-> nodes1, keys |-> keys1, graph |-> r.graph,
             raised |-> "dependency_not_found"]
       ELSE IF ~is_directed_acyclic_graph(r.graph)
       THEN [nodes |-> del_node(nodes1, name),
             keys |-> SelectSeq(keys1, LAMBDA n : n # name),
             graph |-> graph_remove_node(r.graph, name),
             raised |-> "cycle"]
       ELSE [nodes |-> nodes1, keys |-> keys1, graph |-> r.graph, raised |-> "none"]

\* An add_node without the duplicate check: a registered name is overwritten.
add_node_result_overwrites(name, task_func, dependencies) ==
    add_node_insert(name, task_func, dependencies)

\* The state add_node leaves behind and the error it raises.
add_node_result(name, task_func, dependencies) ==
    IF name \in DOMAIN nodes
    THEN [nodes |-> nodes, keys |-> keys, graph |-> graph, raised |-> "duplicate"]
    ELSE add_node_insert(name, task_func, dependencies)

add_node(name, task_func, dependencies) ==
    /\ pc = "idle"
    /\ LET r == add_node_result(name, task_func, dependencies)
       IN /\ nodes' = r.nodes
          /\ keys' = r.keys
          /\ graph' = r.graph
          /\ raised' = r.raised
    /\ results' = <<>>
    /\ returned' = NoReturn
    /\ call' = "add_node"
    /\ exception' = NoException
    /\ UNCHANGED <<now, pc, cur, execution_order, idx, current_data, initial_context>>

\* -------------------------------------------------------------- execution
\* The checks of execute_node before it delegates to node.execute: the error
\* raised, or "none".  self.nodes[dep] of an unregistered dep is a KeyError.
RECURSIVE check_dependencies(_)
check_dependencies(dependencies) ==
    IF dependencies = <<>> THEN "none"
    ELSE IF Head(dependencies) \notin DOMAIN nodes THEN "KeyError"
    ELSE IF nodes[Head(dependencies)].status # "completed" THEN "dependency_not_completed"
    ELSE check_dependencies(Tail(dependencies))

execute_node_check(name) ==
    IF name \notin DOMAIN nodes THEN "node_not_found"
    ELSE check_dependencies(nodes[name].dependencies)

\* An execute that also empties the dependency list of the node.
execute_begin_drops_dependencies(node, t) ==
    [node EXCEPT !.status = "running", !.start_time = t, !.dependencies = <<>>]

\* WorkflowNode.execute up to the call of task_func.
execute_begin(node, t) == [node EXCEPT !.status = "running", !.start_time = t]

\* An execute that forgets to store the value returned.
execute_completed_no_result(node, value, t) ==
    [node EXCEPT !.status = "completed", !.end_time = t]

\* An execute that stores the value and the end time but leaves the node
\* running.
execute_completed_stays_running(node, value, t) ==
    [node EXCEPT !.result = value, !.end_time = t]

\* WorkflowNode.execute after task_func returned value.
execute_completed(node, value, t) ==
    [node EXCEPT !.result = value, !.status = "completed", !.end_time = t]

\* An execute that marks the node failed without recording the error text.
execute_failed_no_error(node, e, t) ==
    [node EXCEPT !.status = "failed", !.end_time = t]

\* WorkflowNode.execute after task_func raised e.
execute_failed(node, e, t) ==
    [node EXCEPT !.status = "failed", !.error = str(e), !.end_time = t]

\* dict.update
update(d, r) == [k \in DOMAIN d \cup DOMAIN r |-> IF k \in DOMAIN r THEN r[k] ELSE d[k]]

\* An execute_workflow that does not record the result of the node.
store_result_dropped(res, name, value) == res

\* results[node_name] = node_result
store_result(res, name, value) == (name :> value) @@ res

\* A merge that keeps the value a key already has in the working context.
merge_result_keeps_first(data, value) ==
    IF value.tag = "dict" THEN update(value.items, data) ELSE data

\* if isinstance(node_result, dict): current_data.update(node_result)
merge_result(data, value) ==
    IF value.tag = "dict" THEN update(data, value.items) ELSE data

\* The dependency_results entry of node_input; a dependency that is not a
\* key of self.nodes makes its construction fail with KeyError.
dependency_results(name) ==
    LET deps == {nodes[name].dependencies[i] : i \in 1..Len(nodes[name].dependencies)}
    IN IF deps \subseteq DOMAIN nodes
       THEN [ok |-> TRUE, items |-> [d \in deps |-> nodes[d].result]]
       ELSE [ok |-> FALSE, items |-> <<>>]

\* node_input as built by execute_workflow for the node it is about to run.
node_input(name) ==
    [workflow_data |-> current_data, dependency_results |-> dependency_results(name).items]

\* The locals of execute_workflow once the call is over.
NoLocals ==
    /\ execution_order' = <<>>
    /\ idx' = 0
    /\ current_data' = EmptyDict
    /\ initial_context' = EmptyDict

\* execute_node(name, input_data) called by the user: the checks, then
\* node.execute up to the point where task_func runs.
execute_node(name) ==
    /\ pc = "idle"
    /\ LET err == execute_node_check(name)
       IN IF err # "none"
          THEN /\ raised' = err
               /\ call' = "execute_node"
               /\ UNCHANGED <<nodes, now, pc, cur>>
          ELSE /\ now < MaxClock
               /\ nodes' = [nodes EXCEPT ![name] = execute_begin(@, now)]
               /\ now' = now + 1
               /\ pc' = "execute_node"
               /\ cur' = name
               /\ raised' = "none"
               /\ UNCHANGED call
    /\ results' = <<>>
    /\ returned' = NoReturn
    /\ exception' = NoException
    /\ UNCHANGED <<keys, graph, execution_order, idx, current_data, initial_context>>

\* execute_workflow(initial_data) up to the head of the for loop.
execute_workflow(initial_data) ==
    /\ pc = "idle"
    /\ IF ~is_directed_acyclic_graph(graph)
       THEN /\ raised' = "invalid_dag"
            /\ results' = <<>>
            /\ call' = "execute_workflow"
            /\ UNCHANGED <<pc, execution_order, idx, current_data, initial_context>>
       ELSE LET order == topological_sort(graph).order
            IN /\ now + 2 * Len(order) <= MaxClock + 1
               /\ execution_order' = order
               /\ results' = <<>>
               /\ raised' = "none"
               /\ IF order = <<>>
                  THEN /\ idx' = 0
                       /\ current_data' = EmptyDict
                       /\ initial_context' = EmptyDict
                       /\ pc' = "idle"
                       /\ call' = "execute_workflow"
                  ELSE /\ idx' = 1
                       /\ current_data' = initial_data
                       /\ initial_context' = initial_data
                       /\ pc' = "for"
                       /\ UNCHANGED call
    /\ returned' = NoReturn
    /\ exception' = NoException
    /\ UNCHANGED <<nodes, keys, graph, now, cur>>

\* One pass of the for loop up to the point where task_func runs: node_input
\* is built, execute_node checks the dependencies and node.execute begins.
for_node ==
    /\ pc = "for"
    /\ LET name == execution_order[idx]
           err == IF ~dependency_results(name).ok THEN "KeyError"
                  ELSE execute_node_check(name)
       IN IF err # "none"
          THEN /\ raised' = err
               /\ pc' = "idle"
               /\ results' = <<>>
               /\ call' = "execute_workflow"
               /\ NoLocals
               /\ UNCHANGED <<nodes, now, cur>>
          ELSE /\ nodes' = [nodes EXCEPT ![name] = execute_begin(@, now)]
               /\ now' = now + 1
               /\ pc' = "execute_workflow"
               /\ cur' = name
               /\ UNCHANGED <<raised, results, execution_order, idx, current_data,
                              initial_context, call>>
    /\ returned' = NoReturn
    /\ exception' = NoException
    /\ UNCHANGED <<keys, graph>>

\* task_func returns value: node.execute completes the node; in
\* execute_workflow the result is stored and merged, and the loop goes on or
\* the call returns results.
task_return(value) ==
    /\ pc \in {"execute_node", "execute_workflow"}
    /\ nodes' = [nodes EXCEPT ![cur] = execute_completed(@, value, now)]
    /\ now' = now + 1
    /\ cur' = ""
    /\ raised' = "none"
    /\ IF pc = "execute_node"
       THEN /\ pc' = "idle"
            /\ call' = "execute_node"
            /\ UNCHANGED <<results, execution_order, idx, current_data, initial_context>>
       ELSE /\ results' = store_result(results, cur, value)
            /\ IF idx < Len(execution_order)
               THEN /\ pc' = "for"
                    /\ idx' = idx + 1
                    /\ current_data' = merge_result(current_data, value)
                    /\ UNCHANGED <<execution_order, initial_context, call>>
               ELSE /\ pc' = "idle"
                    /\ call' = "execute_workflow"
                    /\ NoLocals
    /\ returned' = NoReturn
    /\ exception' = NoException
    /\ UNCHANGED <<keys, graph>>

\* A handler that raises a new exception in place of the one it caught.
reraise_wrapped(e) == Exception("wrapped")

\* The bare raise of WorkflowNode.execute, which execute_node and
\* execute_workflow do not catch: the caller gets the exception object e.
reraise(e) == e

\* task_func raises an exception with the text e: node.execute marks the
\* node failed and re-raises; execute_node and execute_workflow let the
\* exception through.
task_raise(e) ==
    /\ pc \in {"execute_node", "execute_workflow"}
    /\ nodes' = [nodes EXCEPT ![cur] = execute_failed(@, Exception(e), now)]
    /\ exception' = reraise(Exception(e))
    /\ now' = now + 1
    /\ cur' = ""
    /\ raised' = "task_error"
    /\ pc' = "idle"
    /\ call' = IF pc = "execute_node" THEN "execute_node" ELSE "execute_workflow"
    /\ results' = <<>>
    /\ NoLocals
    /\ returned' = NoReturn
    /\ UNCHANGED <<keys, graph>>

\* ---------------------------------------------------------- status queries
\* all(self.nodes[dep].status == 'completed' for dep in dependencies): the
\* dependencies are looked at in order up to the first that is not completed;
\* looking up one that is not a key of ns is a KeyError.
RECURSIVE deps_completed(_, _)
deps_completed(ns, dependencies) ==
    IF dependencies = <<>> THEN "True"
    ELSE IF Head(dependencies) \notin DOMAIN ns THEN "KeyError"
    ELSE IF ns[Head(dependencies)].status # "completed" THEN "False"
    ELSE deps_completed(ns, Tail(dependencies))

\* get_ready_nodes on the node mapping ns with insertion order ks: the list
\* returned, or the error raised.
get_ready_nodes_result(ns, ks) ==
    LET pending == SelectSeq(ks, LAMBDA n : ns[n].status = "pending")
    IN IF \E i \in 1..Len(pending) : deps_completed(ns, ns[pending[i]].dependencies) = "KeyError"
       THEN [raised |-> "KeyError", ready_nodes |-> <<>>]
       ELSE [raised |-> "none",
             ready_nodes |-> SelectSeq(pending,
                 LAMBDA n : deps_completed(ns, ns[n].dependencies) = "True")]

\* get_node_status(name) on the node mapping ns.
get_node_status_result(ns, name) ==
    IF name \notin DOMAIN ns
    THEN [raised |-> "node_not_found", node_status |-> NoNodeStatus]
    ELSE [raised |-> "none",
          node_status |->
              [name |-> ns[name].name,
               status |-> ns[name].status,
               error |-> ns[name].error,
               start_time |-> ns[name].start_time,
               end_time |-> ns[name].end_time,
               duration |-> IF ns[name].end_time # NoTime
                            THEN <<ns[name].end_time - ns[name].start_time>>
                            ELSE <<>>]]

\* A min that picks the largest value.
min_picks_largest(S) == CHOOSE x \in S : \A y \in S : x >= y

\* min and max of a non-empty set of clock values.
min(S) == CHOOSE x \in S : \A y \in S : x <= y
max(S) == CHOOSE x \in S : \A y \in S : x >= y

\* A summary that tests the running count before the failed count.
workflow_verdict_running_first(total_nodes, completed, failed, running) ==
    IF completed = total_nodes THEN "completed"
    ELSE IF running > 0 THEN "running"
    ELSE IF failed > 0 THEN "failed"
    ELSE "pending"

\* The summary of get_workflow_status from the four counts.
workflow_verdict(total_nodes, completed, failed, running) ==
    IF completed = total_nodes THEN "completed"
    ELSE IF failed > 0 THEN "failed"
    ELSE IF running > 0 THEN "running"
    ELSE "pending"

\* get_workflow_status on the node mapping ns.
get_workflow_status_result(ns) ==
    LET count(st) == Cardinality({n \in DOMAIN ns : ns[n].status = st})
        total_nodes == Cardinality(DOMAIN ns)
        start_times == {ns[n].start_time : n \in {m \in DOMAIN ns : ns[m].start_time # NoTime}}
        end_times == {ns[n].end_time : n \in {m \in DOMAIN ns : ns[m].end_time # NoTime}}
        workflow_start == IF start_times # {} THEN min(start_times) ELSE NoTime
        workflow_end == IF end_times # {} THEN max(end_times) ELSE NoTime
    IN [total_nodes |-> total_nodes,
        completed |-> count("completed"),
        failed |-> count("failed"),
        pending |-> count("pending"),
        running |-> count("running"),
        start_time |-> workflow_start,
        end_time |-> workflow_end,
        duration |-> IF workflow_end # NoTime THEN <<workflow_end - workflow_start>> ELSE <<>>,
        status |-> workflow_verdict(total_nodes, count("completed"), count("failed"),
                                    count("running"))]

\* The queries are called between the calls that change the graph or while a
\* callable is running; they leave everything but their outcome alone.
get_ready_nodes ==
    /\ LET r == get_ready_nodes_result(nodes, keys)
       IN /\ raised' = r.raised
          /\ returned' = [NoReturn EXCEPT !.ready_nodes = r.ready_nodes]
    /\ call' = "get_ready_nodes"
    /\ exception' = NoException
    /\ UNCHANGED <<nodes, keys, graph, now, pc, cur, execution_order, idx, results,
                   current_data, initial_context>>

\* A get_node_status that also drops the result stored on the node.
get_node_status_clears_result(name) ==
    /\ LET r == get_node_status_result(nodes, name)
       IN /\ raised' = r.raised
          /\ returned' = [NoReturn EXCEPT !.node_status = r.node_status]
    /\ nodes' = [n \in DOMAIN nodes |->
                    IF n = name THEN [nodes[n] EXCEPT !.result = None] ELSE nodes[n]]
    /\ call' = "get_node_status"
    /\ exception' = NoException
    /\ UNCHANGED <<keys, graph, now, pc, cur, execution_order, idx, results,
                   current_data, initial_context>>

get_node_status(name) ==
    /\ LET r == get_node_status_result(nodes, name)
       IN /\ raised' = r.raised
          /\ returned' = [NoReturn EXCEPT !.node_status = r.node_status]
    /\ call' = "get_node_status"
    /\ exception' = NoException
    /\ UNCHANGED <<nodes, keys, graph, now, pc, cur, execution_order, idx, results,
                   current_data, initial_context>>

get_workflow_status ==
    /\ raised' = "none"
    /\ returned' = [NoReturn EXCEPT !.workflow_status = get_workflow_status_result(nodes)]
    /\ call' = "get_workflow_status"
    /\ exception' = NoException
    /\ UNCHANGED <<nodes, keys, graph, now, pc, cur, execution_order, idx, results,
                   current_data, initial_context>>

Init ==
    /\ nodes = <<>>
    /\ keys = <<>>
    /\ graph = [node |-> <<>>, edge |-> {}]
    /\ now = 1
    /\ pc = "idle"
    /\ cur = ""
    /\ execution_order = <<>>
    /\ idx = 0
    /\ results = <<>>
    /\ current_data = EmptyDict
    /\ initial_context = EmptyDict
    /\ raised = "none"
    /\ returned = NoReturn
    /\ call = ""
    /\ exception = NoException

Next ==
    \/ \E name \in Names, task_func \in Funcs, dependencies \in DepLists :
          add_node(name, task_func, dependencies)
    \/ \E name \in Names : execute_node(name)
    \/ \E initial_data \in InitialData : execute_workflow(initial_data)
    \/ for_node
    \/ \E value \in Payloads : task_return(value)
    \/ \E e \in Errors : task_raise(e)
    \/ get_ready_nodes
    \/ \E name \in Names : get_node_status(name)
    \/ get_workflow_status

Spec == Init /\ [][Next]_vars

\* The supported use of the graph with a caller that makes no mistake: the
\* graph is built first, every add_node naming a new node and, once each,
\* nodes that are registered; then the workflow is executed.
RunNames == {"A", "B", "C"}
RunDepLists ==
    {d \in SeqsUpTo(DOMAIN nodes, MaxDeps) :
        \A i \in 1..Len(d), j \in 1..Len(d) : d[i] = d[j] => i = j}

build(name, dependencies) ==
    /\ call \in {"", "add_node"}
    /\ name \notin DOMAIN nodes
    /\ add_node(name, "f", dependencies)

NextRun ==
    \/ \E name \in RunNames, dependencies \in RunDepLists : build(name, dependencies)
    \/ \E initial_data \in InitialData : execute_workflow(initial_data)
    \/ for_node
    \/ \E value \in Payloads : task_return(value)
    \/ \E e \in Errors : task_raise(e)

SpecRun == Init /\ [][NextRun]_vars

\* The callables terminate and the interpreter keeps running the call in
\* progress: a callable that was started returns or raises, and the for loop
\* goes on to its next pass.
Fairness ==
    /\ WF_vars(for_node)
    /\ WF_vars((\E value \in Payloads : task_return(value)) \/ (\E e \in Errors : task_raise(e)))

SpecFair == Spec /\ Fairness

\* A caller that builds the graph with add_node calls that may fail, also by
\* naming a dependency that is never registered, and executes the workflow.
Unregistered == "X"
CycleDepLists == DepLists \cup {<<n, Unregistered>> : n \in Names}

NextCycle ==
    \/ \E name \in Names, dependencies \in CycleDepLists : add_node(name, "f", dependencies)
    \/ \E initial_data \in InitialData : execute_workflow(initial_data)
    \/ for_node
    \/ \E value \in Payloads : task_return(value)
    \/ \E e \in Errors : task_raise(e)

SpecCycle == Init /\ [][NextCycle]_vars

\* ------------------------------------------------------------ properties
\* The pairs <<a, b>> with a path of one or more edges of R from a to b.
RECURSIVE Closure(_)
Closure(R) ==
    LET R2 == R \cup {<<p[1][1], p[2][2]>> : p \in {q \in R \X R : q[1][2] = q[2][1]}}
    IN IF R2 = R THEN R ELSE Closure(R2)

\* The dependency lists as a set of pairs <<dependency, dependent>>.
DependencyPairs ==
    UNION {{<<nodes[n].dependencies[i], n>> : i \in 1..Len(nodes[n].dependencies)} :
           n \in DOMAIN nodes}

\* name was registered by an add_node call that succeeded: it is a key of
\* self.nodes and each of its dependencies was inserted before it (a call that
\* fails on a missing dependency leaves a node with a dependency that is
\* itself or is not inserted before it; nodes are never removed later).
Position(name) == CHOOSE i \in 1..Len(keys) : keys[i] = name
RegisteredOk(name) ==
    /\ name \in DOMAIN nodes
    /\ \A i \in 1..Len(nodes[name].dependencies) :
          LET dep == nodes[name].dependencies[i]
          IN dep \in DOMAIN nodes /\ Position(dep) < Position(name)

\* C1: after any sequence of add_node calls, failed ones included, the edge
\* set of the graph has no cycle: no path of edges leads from a node back to
\* itself.
C1_EdgesAcyclic == \A n \in Names : <<n, n>> \notin Closure(graph.edge)

\* C2: an add_node call that fails because a dependency is not registered
\* leaves the node mapping and the graph as they were before the call.
C2_UnknownDependencyLeavesGraph ==
    [][\A name \in Names, task_func \in Funcs, dependencies \in DepLists :
          (add_node(name, task_func, dependencies) /\ raised' = "dependency_not_found")
          => (nodes' = nodes /\ keys' = keys /\ graph' = graph)]_vars

\* C3: in every reachable state every identity in the dependency list of a
\* registered node is itself a registered node.
C3_DependenciesRegistered ==
    \A n \in DOMAIN nodes : \A i \in 1..Len(nodes[n].dependencies) :
        nodes[n].dependencies[i] \in DOMAIN nodes

\* C4: an add_node call that fails with the cycle error leaves the node
\* mapping, the node set and the edge set as they were before the call.
C4_CycleRollback ==
    [][\A name \in Names, task_func \in Funcs, dependencies \in DepLists :
          (raised' = "cycle" /\ add_node(name, task_func, dependencies))
          => (nodes' = nodes /\ keys' = keys /\ graph' = graph)]_vars

\* A cycle error was raised on a graph that holds a node.
C4_Witness == raised = "cycle" /\ Len(keys) > 0 /\ pc = "idle"

\* C5: add_node('E', f, ['E']) on a graph where E is not registered fails
\* with the unknown-dependency error and leaves the number of nodes unchanged.
C5_SelfDependencyUnknown ==
    [][\A task_func \in Funcs :
          (add_node("E", task_func, <<"E">>) /\ "E" \notin DOMAIN nodes)
          => (raised' = "dependency_not_found" /\ Len(keys') = Len(keys))]_vars

\* C6: add_node(name, f, deps) succeeds whenever name was not registered by an
\* earlier successful call, name is not in deps and every element of deps was
\* registered by an earlier successful call, whatever calls failed before.
C6_RetrySucceeds ==
    [][\A name \in Names, task_func \in Funcs, dependencies \in DepLists :
          (/\ add_node(name, task_func, dependencies)
           /\ ~RegisteredOk(name)
           /\ \A i \in 1..Len(dependencies) :
                 dependencies[i] # name /\ RegisteredOk(dependencies[i]))
          => raised' = "none"]_vars

\* C7: add_node with a name that is already registered fails with the
\* duplicate-node error and changes nothing: the node set and the edges are
\* unchanged and the node keeps its callable, dependency list, state, result,
\* error and timestamps.
C7_DuplicateChangesNothing ==
    [][\A name \in Names, task_func \in Funcs, dependencies \in DepLists :
          (add_node(name, task_func, dependencies) /\ name \in DOMAIN nodes)
          => (raised' = "duplicate" /\ nodes' = nodes /\ keys' = keys /\ graph' = graph)]_vars

\* A duplicate add_node was refused for a node that had been executed.
C7_Witness ==
    /\ raised = "duplicate"
    /\ \E n \in DOMAIN nodes : nodes[n].status = "completed" /\ nodes[n].result # None

\* C8: the only state changes of a node are pending->running,
\* running->completed and running->failed; a completed or failed node never
\* changes state again.
C8_Transitions ==
    [][\A n \in DOMAIN nodes \cap DOMAIN nodes' :
          \/ nodes'[n].status = nodes[n].status
          \/ nodes[n].status = "pending" /\ nodes'[n].status = "running"
          \/ nodes[n].status = "running" /\ nodes'[n].status \in {"completed", "failed"}]_vars

\* C9: executing a node that is already completed fails with an invalid-state
\* error without invoking the callable and leaves the node's result, start
\* time and end time unchanged.
C9_ReexecuteCompleted ==
    [][\A name \in Names :
          (execute_node(name) /\ name \in DOMAIN nodes /\ nodes[name].status = "completed")
          => (/\ raised' = "invalid_state"
              /\ pc' = "idle"
              /\ nodes'[name].result = nodes[name].result
              /\ nodes'[name].start_time = nodes[name].start_time
              /\ nodes'[name].end_time = nodes[name].end_time)]_vars

\* C10: once a node x is failed, no node that depends on x directly or
\* transitively ever leaves pending.  (execute stores the error text only when
\* it marks the node failed and nothing clears it, so a node whose error is
\* set is a node that was failed at this or an earlier point.)
C10_DependentsOfFailedStayPending ==
    [][\A x \in DOMAIN nodes, y \in DOMAIN nodes :
          (/\ nodes[x].error # NoError
           /\ <<x, y>> \in Closure(DependencyPairs)
           /\ nodes[y].status = "pending")
          => nodes'[y].status = "pending"]_vars

\* The step that ends a call of execute_workflow (it returns or raises).
EndsWorkflow ==
    /\ pc' = "idle"
    /\ call' = "execute_workflow"
    /\ pc # "idle" \/ \E initial_data \in InitialData : execute_workflow(initial_data)

\* The nodes that follow position idx in the order being walked.
NotYetStarted == {execution_order[i] : i \in (idx + 1)..Len(execution_order)}

\* C11: when a node's callable fails during execute_workflow the run stops at
\* once: the call is over and the error reaches the caller, the failing node
\* is failed with the error text recorded, the nodes completed earlier in the
\* run stay completed, no node later in the order is started (each keeps its
\* state, a pending one stays pending) and the summary verdict is failed.
C11_FailFast ==
    [][\A e \in Errors :
          (task_raise(e) /\ pc = "execute_workflow")
          => (/\ pc' = "idle"
              /\ call' = "execute_workflow"
              /\ raised' = "task_error"
              /\ nodes'[cur].status = "failed"
              /\ nodes'[cur].error = e
              /\ \A n \in DOMAIN results : nodes'[n].status = "completed"
              /\ \A n \in NotYetStarted : nodes'[n] = nodes[n]
              /\ \A n \in DOMAIN nodes \ {cur} : nodes'[n].status = nodes[n].status
              /\ get_workflow_status_result(nodes').status = "failed")]_vars

\* The chain A -> B -> C after a run in which B failed: A completed, B failed
\* with its error, C pending, the error raised to the caller.
C11_Witness ==
    /\ pc = "idle" /\ call = "execute_workflow" /\ raised = "task_error"
    /\ DOMAIN nodes = {"A", "B", "C"}
    /\ nodes["B"].dependencies = <<"A">> /\ nodes["C"].dependencies = <<"B">>
    /\ nodes["A"].status = "completed"
    /\ nodes["B"].status = "failed" /\ nodes["B"].error # NoError
    /\ nodes["C"].status = "pending" /\ nodes["C"].start_time = NoTime

\* C12: in an execute_workflow run a node is visited at most once and only
\* after all of its dependencies were visited and completed earlier in the
\* same run.
C12_TopologicalVisit ==
    [][(pc = "for" /\ pc' = "execute_workflow")
          => (/\ cur' \notin DOMAIN results
              /\ \A i \in 1..Len(nodes[cur'].dependencies) :
                    LET dep == nodes[cur'].dependencies[i]
                    IN /\ dep \in DOMAIN results
                       /\ nodes[dep].status = "completed")]_vars

\* The linearization that repeatedly takes, among the nodes not yet visited
\* whose dependencies have all been visited, the one inserted first.
RECURSIVE InsertionOrderLinearization(_)
InsertionOrderLinearization(visited) ==
    LET done == {visited[i] : i \in 1..Len(visited)}
        schedulable == SelectSeq(keys, LAMBDA n :
                           /\ n \notin done
                           /\ \A i \in 1..Len(nodes[n].dependencies) :
                                 nodes[n].dependencies[i] \in done)
    IN IF schedulable = <<>> THEN visited
       ELSE InsertionOrderLinearization(Append(visited, Head(schedulable)))

\* C13: the order walked by execute_workflow is the linearization that breaks
\* ties between schedulable nodes by insertion order.
C13_InsertionOrderTieBreak ==
    pc \in {"for", "execute_workflow"} => execution_order = InsertionOrderLinearization(<<>>)

\* The set of the dependencies declared by a registered node.
DependencySet(n) == {nodes[n].dependencies[i] : i \in 1..Len(nodes[n].dependencies)}

\* The nodes that are pending and whose every dependency is completed, in
\* insertion order.
ReadyInInsertionOrder ==
    SelectSeq(keys, LAMBDA n :
        /\ nodes[n].status = "pending"
        /\ \A d \in DependencySet(n) : d \in DOMAIN nodes /\ nodes[d].status = "completed")

\* C15: at any point get_ready_nodes() returns exactly the nodes that are
\* pending and whose every dependency is completed, in insertion order.
C15_ReadyNodes ==
    [][get_ready_nodes
          => (raised' = "none" /\ returned'.ready_nodes = ReadyInInsertionOrder)]_vars

\* C16: execute_node on a node with a dependency that is not completed fails
\* with the dependency-not-satisfied error, the callable is not invoked and no
\* node's state, result, error or timestamps change.
C16_DependencyNotSatisfied ==
    [][\A name \in Names :
          (/\ execute_node(name)
           /\ name \in DOMAIN nodes
           /\ \E d \in DependencySet(name) :
                 d \in DOMAIN nodes /\ nodes[d].status # "completed")
          => (/\ raised' = "dependency_not_completed"
              /\ pc' = "idle"
              /\ nodes' = nodes)]_vars

\* C17: in every reachable state the verdict of get_workflow_status() is failed
\* if a node is failed, otherwise completed if all nodes are completed,
\* otherwise running if a node is running, otherwise pending; so it is failed
\* iff some node is failed and completed iff all nodes are completed.
C17_Verdict ==
    LET verdict == get_workflow_status_result(nodes).status
        some(st) == \E n \in DOMAIN nodes : nodes[n].status = st
        all_completed == \A n \in DOMAIN nodes : nodes[n].status = "completed"
    IN /\ verdict = IF some("failed") THEN "failed"
                    ELSE IF all_completed THEN "completed"
                    ELSE IF some("running") THEN "running"
                    ELSE "pending"
       /\ verdict = "failed" <=> some("failed")
       /\ verdict = "completed" <=> all_completed

\* A node is running while another is failed: the order of the tests matters.
C17_Witness ==
    /\ \E n \in DOMAIN nodes : nodes[n].status = "failed"
    /\ \E n \in DOMAIN nodes : nodes[n].status = "running"

\* The nodes that reached completed in the run that the step ends.
CompletedInRun ==
    DOMAIN results \cup
        (IF pc = "execute_workflow" /\ nodes'[cur].status = "completed" THEN {cur} ELSE {})

\* C18 as claimed: execute_workflow hands the caller a mapping whose keys are
\* the nodes that reached completed in the run, each mapped to the node's
\* stored result, also when the run was aborted by a failing callable.
C18_MappingOfCompleted ==
    [][EndsWorkflow
          => (/\ DOMAIN results' = CompletedInRun
              /\ \A n \in DOMAIN results' : results'[n] = nodes'[n].result)]_vars

\* C18 as amended: execute_workflow hands the caller a mapping only when it
\* returns: its keys are then all registered nodes, which are the nodes that
\* reached completed in the run, each mapped to the node's stored result; when
\* the call raises, the results collected so far are dropped.
C18_MappingOnReturn ==
    [][EndsWorkflow
          => IF raised' = "none"
             THEN /\ DOMAIN results' = DOMAIN nodes'
                  /\ DOMAIN results' = CompletedInRun
                  /\ \A n \in DOMAIN results' :
                        nodes'[n].status = "completed" /\ results'[n] = nodes'[n].result
             ELSE results' = <<>>]_vars

\* execute_workflow returned the results of two nodes.
C18_Witness ==
    /\ pc = "idle" /\ call = "execute_workflow" /\ raised = "none"
    /\ Cardinality(DOMAIN results) = 2

\* The step in which a failing callable aborts a run of execute_workflow.
AbortsWorkflow == pc = "execute_workflow" /\ \E e \in Errors : task_raise(e)

\* C19 as claimed: after a run aborted by a failing node, each node completed
\* before the failure is still completed, still holds its result, and
\* get_node_status(name) hands that result out.
C19_PartialResultsFromStatus ==
    [][AbortsWorkflow
          => \A n \in DOMAIN results :
                LET r == get_node_status_result(nodes', n)
                IN /\ nodes'[n].status = "completed"
                   /\ nodes'[n].result = results[n]
                   /\ r.raised = "none"
                   /\ "result" \in DOMAIN r.node_status
                   /\ r.node_status.result = results[n]]_vars

\* C19 as amended: after a run aborted by a failing node, each node completed
\* before the failure is still completed and still holds its result in its
\* result field; get_node_status(name) reports it completed with its
\* timestamps, but the record it returns has no result entry.
C19_PartialResultsOnNodes ==
    [][AbortsWorkflow
          => \A n \in DOMAIN results :
                LET r == get_node_status_result(nodes', n)
                IN /\ nodes'[n].status = "completed"
                   /\ nodes'[n].result = results[n]
                   /\ r.raised = "none"
                   /\ r.node_status.status = "completed"
                   /\ r.node_status.end_time = nodes[n].end_time
                   /\ DOMAIN r.node_status =
                          {"name", "status", "error", "start_time", "end_time", "duration"}]_vars

\* A run was aborted by a failing node after another node had completed.
C19_Witness ==
    /\ pc = "idle" /\ call = "execute_workflow" /\ raised = "task_error"
    /\ \E n \in DOMAIN nodes : nodes[n].status = "completed" /\ nodes[n].result # None
    /\ \E n \in DOMAIN nodes : nodes[n].status = "failed"

\* The initial context overlaid, in the order of execution, with the outputs
\* of the first n nodes of the order being walked.
RECURSIVE ContextAfter(_)
ContextAfter(n) ==
    IF n = 0 THEN initial_context
    ELSE LET name == execution_order[n]
             prev == ContextAfter(n - 1)
         IN IF name \in DOMAIN results /\ results[name].tag = "dict"
            THEN [k \in DOMAIN prev \cup DOMAIN results[name].items |->
                     IF k \in DOMAIN results[name].items
                     THEN results[name].items[k] ELSE prev[k]]
            ELSE prev

\* C20: the input given to the callable of a node executed by
\* execute_workflow is the working context, equal to the initial context
\* overlaid with the outputs of the nodes executed earlier in the run, and a
\* mapping whose keys are the node's dependencies, each mapped to the value
\* the dependency's callable returned in this run.
C20_NodeInput ==
    [][(pc = "for" /\ pc' = "execute_workflow")
          => LET input == node_input(cur')
             IN /\ input.workflow_data = ContextAfter(idx - 1)
                /\ DOMAIN input.dependency_results = DependencySet(cur')
                /\ \A d \in DependencySet(cur') :
                      d \in DOMAIN results /\ input.dependency_results[d] = results[d]]_vars

\* The positions among the first n of the order being walked whose node
\* returned a dictionary holding the key k in this run.
Emitters(k, n) ==
    {i \in 1..n : /\ execution_order[i] \in DOMAIN results
                  /\ results[execution_order[i]].tag = "dict"
                  /\ k \in DOMAIN results[execution_order[i]].items}

\* C21: at any point of an execute_workflow run the working context holds
\* the keys of the initial context and the keys emitted by the nodes executed
\* so far; the value of a key is the one emitted by the most recently
\* executed node that emitted it (the later node wins), or the initial value
\* when no executed node emitted the key.
C21_MergeOverwrite ==
    pc \in {"for", "execute_workflow"}
        => LET n == idx - 1
           IN /\ DOMAIN current_data =
                     DOMAIN initial_context \cup {k \in Keys : Emitters(k, n) # {}}
              /\ \A k \in DOMAIN current_data :
                     current_data[k] =
                         IF Emitters(k, n) # {}
                         THEN results[execution_order[max(Emitters(k, n))]].items[k]
                         ELSE initial_context[k]

\* Two independent nodes emitted different values for k, the context holds
\* the later one, and j still has its initial value.
C21_Witness ==
    /\ pc = "for" /\ idx = 3
    /\ execution_order[1] \notin DependencySet(execution_order[2])
    /\ results[execution_order[1]].tag = "dict"
    /\ results[execution_order[2]].tag = "dict"
    /\ results[execution_order[1]].items["k"] # results[execution_order[2]].items["k"]
    /\ current_data["k"] = results[execution_order[2]].items["k"]
    /\ "j" \in DOMAIN current_data /\ current_data["j"] = 0

\* C22: when the callable of a node fails, the call of execute_node or
\* execute_workflow ends by letting that same exception through to its
\* caller, and in the state the caller then sees the node is failed, its
\* error field holds the text of that exception and its end time is set.
C22_ErrorPropagated ==
    [][\A e \in Errors :
          task_raise(e)
              => /\ pc' = "idle"
                 /\ call' = pc
                 /\ raised' = "task_error"
                 /\ exception' = Exception(e)
                 /\ nodes'[cur].status = "failed"
                 /\ nodes'[cur].error = str(exception')
                 /\ nodes'[cur].end_time = now /\ nodes'[cur].end_time # NoTime]_vars

\* An execute_node call has just let the exception of the callable through.
C22_Witness ==
    /\ pc = "idle" /\ call = "execute_node" /\ raised = "task_error"
    /\ exception = Exception("boom")
    /\ \E n \in DOMAIN nodes :
          /\ nodes[n].status = "failed"
          /\ nodes[n].error = "boom"
          /\ nodes[n].end_time = now - 1

\* C23: in every reachable state a node has a stored result only if it is
\* completed and a stored error only if it is failed.
C23_ResultAndErrorMatchState ==
    \A n \in DOMAIN nodes :
        /\ nodes[n].result # None => nodes[n].status = "completed"
        /\ nodes[n].error # NoError => nodes[n].status = "failed"

\* C24: execute_workflow called on a graph whose edges contain a cycle ends
\* at once with the invalid-graph error: no node is started, no callable
\* runs, and the nodes (state, result, error, timestamps), the graph and the
\* clock are as before the call.
C24_CyclicGraphRejected ==
    [][\A initial_data \in InitialData :
          (/\ execute_workflow(initial_data)
           /\ \E n \in DOMAIN nodes : <<n, n>> \in Closure(graph.edge))
              => /\ raised' = "invalid_dag"
                 /\ call' = "execute_workflow"
                 /\ pc' = "idle" /\ cur' = ""
                 /\ results' = <<>>
                 /\ UNCHANGED <<nodes, keys, graph, now>>]_vars

\* execute_workflow has just refused a cyclic graph that holds a node
\* completed by an earlier run.
C24_Witness ==
    /\ pc = "idle" /\ call = "execute_workflow" /\ raised = "invalid_dag"
    /\ \E n \in DOMAIN nodes : <<n, n>> \in Closure(graph.edge)
    /\ \E n \in DOMAIN nodes : nodes[n].status = "completed" /\ nodes[n].end_time # NoTime

\* The nodes whose callable is running.
Running == {n \in DOMAIN nodes : nodes[n].status = "running"}

\* C25: while execute_workflow runs at most one node is running; when the
\* walk starts the next node no node is running and afterwards only that
\* node is; and the working context changes only in steps after which no
\* node is running.
C25_OneNodeAtATime ==
    [][/\ (pc \in {"for", "execute_workflow"} => Cardinality(Running) <= 1)
       /\ (pc = "for" /\ pc' = "execute_workflow"
              => Running = {} /\ Running' = {cur'})
       /\ (pc = "execute_workflow" /\ pc' = "execute_workflow"
              => current_data' = current_data)
       /\ (current_data' # current_data => Running' = {})]_vars

\* The second node of a run is running, the first is completed and its
\* output has changed the working context.
C25_Witness ==
    /\ pc = "execute_workflow" /\ idx = 2
    /\ Running = {cur} /\ cur = execution_order[2]
    /\ nodes[execution_order[1]].status = "completed"
    /\ current_data # initial_context

\* The step returns from execute_workflow after a walk that executed every
\* registered node exactly once and left all of them completed.
ReturnsAllCompleted ==
    /\ raised' = "none"
    /\ idx = Len(execution_order)
    /\ {execution_order[i] : i \in 1..Len(execution_order)} = DOMAIN nodes
    /\ Len(execution_order) = Cardinality(DOMAIN nodes)
    /\ DOMAIN results' = DOMAIN nodes
    /\ \A n \in DOMAIN nodes : nodes'[n].status = "completed"

\* The step ends execute_workflow at the failure of a callable, the only
\* failure among the nodes executed in the run.
StopsAtFirstFailure ==
    /\ raised' = "task_error"
    /\ pc = "execute_workflow"
    /\ {n \in DOMAIN results \cup {cur} : nodes'[n].status = "failed"} = {cur}

\* The end of a call of execute_workflow on an acyclic graph is one of the
\* two, and a call that has entered its loop comes to an end.
EndsOneOfTwoWays ==
    [][(EndsWorkflow /\ is_directed_acyclic_graph(graph))
          => ReturnsAllCompleted \/ StopsAtFirstFailure]_vars
Terminates == pc \in {"for", "execute_workflow"} ~> pc = "idle"

\* C26: every call of execute_workflow on an acyclic graph comes to an end,
\* and it ends in one of two ways: it returns after executing every
\* registered node exactly once with all of them completed, or it stops at
\* the first failure of a callable with exactly one node failed in the run.
C26_TerminatesCompleteOrFirstFailure == EndsOneOfTwoWays /\ Terminates

\* A step that is a call of one of the three status queries.
StatusQuery ==
    \/ get_workflow_status
    \/ get_ready_nodes
    \/ \E name \in Names : get_node_status(name)

\* C27: a call of get_workflow_status, get_node_status or get_ready_nodes,
\* made between calls or while a callable is running, whether it returns or
\* raises, leaves the nodes (state, result, error, timestamps), the node set
\* and the edges as they were, and does not disturb the call in progress.
C27_QueriesReadOnly ==
    [][StatusQuery
          => /\ nodes' = nodes /\ keys' = keys /\ graph' = graph
             /\ UNCHANGED <<now, pc, cur, execution_order, idx, results, current_data>>]_vars

\* get_node_status has just reported, during a workflow run, a node that is
\* running while another node holds the result of its completion.
C27_Witness ==
    /\ call = "get_node_status" /\ pc = "execute_workflow"
    /\ returned.node_status.status = "running"
    /\ \E n \in DOMAIN nodes : nodes[n].status = "completed" /\ nodes[n].result # None

\* A step of a call of execute_node or execute_workflow: these are the steps
\* that move the position of the running call or end such a call at once
\* (add_node and the status queries leave pc alone and set call to their
\* own name).
ExecutionStep == pc' # pc \/ call' \in {"execute_node", "execute_workflow"}

\* C28: no step of an execute_node or execute_workflow call, whether the
\* call returns or raises, adds or removes a node or an edge or changes the
\* name, the callable or the dependency list of a node; and in every step
\* of the program a registered node stays registered with the same
\* dependency list.
C28_ExecutionKeepsStructure ==
    [][/\ ExecutionStep
          => /\ keys' = keys /\ graph' = graph
             /\ DOMAIN nodes' = DOMAIN nodes
             /\ \A n \in DOMAIN nodes :
                   /\ nodes'[n].name = nodes[n].name
                   /\ nodes'[n].task_func = nodes[n].task_func
                   /\ nodes'[n].dependencies = nodes[n].dependencies
       /\ \A n \in DOMAIN nodes :
             n \in DOMAIN nodes' /\ nodes'[n].dependencies = nodes[n].dependencies]_vars

\* An execute_workflow call has just been ended by a failing callable on a
\* graph with an edge and a node that has dependencies.
C28_Witness ==
    /\ pc = "idle" /\ call = "execute_workflow" /\ raised = "task_error"
    /\ graph.edge # {}
    /\ \E n \in DOMAIN nodes : nodes[n].dependencies # <<>> /\ nodes[n].status = "failed"

\* The start times and the end times recorded on the nodes.
StartTimes == {nodes[n].start_time : n \in {m \in DOMAIN nodes : nodes[m].start_time # NoTime}}
EndTimes == {nodes[n].end_time : n \in {m \in DOMAIN nodes : nodes[m].end_time # NoTime}}

\* C29: with the clock a counter, get_workflow_status called between two
\* operations reports as start_time the smallest start time and as end_time
\* the largest end time recorded on the nodes (None when there is none), and
\* a duration that is absent exactly when no node has an end time and is
\* otherwise end_time - start_time and not negative.
C29_WorkflowTimes ==
    [][(get_workflow_status /\ pc = "idle")
          => LET s == returned'.workflow_status
             IN /\ IF StartTimes = {} THEN s.start_time = NoTime
                   ELSE s.start_time \in StartTimes /\ \A t \in StartTimes : s.start_time <= t
                /\ IF EndTimes = {} THEN s.end_time = NoTime
                   ELSE s.end_time \in EndTimes /\ \A t \in EndTimes : s.end_time >= t
                /\ s.duration = <<>> <=> EndTimes = {}
                /\ EndTimes # {}
                      => /\ s.duration = <<s.end_time - s.start_time>>
                         /\ s.duration[1] >= 0]_vars

\* get_workflow_status has just reported a duration between two operations
\* on a graph with two executed nodes, one of them executed more than once
\* (it is completed and still holds the error of an earlier failure).
C29_Witness ==
    /\ pc = "idle" /\ call = "get_workflow_status"
    /\ returned.workflow_status.duration # <<>>
    /\ Cardinality(StartTimes) = 2
    /\ \E n \in DOMAIN nodes : nodes[n].status = "completed" /\ nodes[n].error # NoError

\* C30: between two calls, when no node is failed, none is running and some
\* node is not completed, get_ready_nodes returns a non-empty list and
\* execute_node passes its checks for every node of the list.
C30_NotStuck ==
    (/\ pc = "idle"
     /\ \A n \in DOMAIN nodes : nodes[n].status \notin {"failed", "running"}
     /\ \E n \in DOMAIN nodes : nodes[n].status # "completed")
        => LET r == get_ready_nodes_result(nodes, keys)
           IN /\ r.raised = "none"
              /\ r.ready_nodes # <<>>
              /\ \A i \in 1..Len(r.ready_nodes) : execute_node_check(r.ready_nodes[i]) = "none"
====
